---- MODULE Spec2Model ----
(***************************************************************************)
(* memSim.py: a virtual memory simulator.  One run translates the logical  *)
(* addresses of a reference file through a TLB, a page table and a page    *)
(* replacement algorithm (FIFO, LRU or OPT) over a fixed number of frames. *)
(*                                                                         *)
(* The model keeps main()'s locals as variables and each class's methods   *)
(* as operators over the object's value.  The page count (256), the frame  *)
(* limit (256) and the TLB size (16) are scaled down; the page size (256   *)
(* bytes) is kept.                                                         *)
(***************************************************************************)
EXTENDS Integers, Sequences, FiniteSets

VARIABLES
    ref_seq,      \* the lines of the reference file, as integers
    backing_store,\* the file BACKING_STORE.bin: its size and its contents
    frames,       \* number of frames after clamping
    pra,          \* the page replacement algorithm object
    phys_mem,     \* PhysicalMemory.memory: frame -> the bytes it holds
    page_table,   \* PageTable: the shared default entry and the per-page entries
    tlb,          \* TLB: entries and ptr
    addr_count,
    tlb_miss,
    page_miss,
    addr,
    p_num,
    p_offset,
    f_num,
    pc,           \* position in main(): "read" (the loop), "done", "crash"
    output,       \* the last per-address line printed
    summary,      \* the summary lines printed at the end of the run
    path,         \* history: how the last address was translated
    pt_before,    \* history: the page table when the last lookup began
    fault_frames, \* history: the frames returned by next(), in call order
    calls         \* history: the calls of the last loop body on the policy,
                  \* the TLB and the page table lookups, with their results

vars == <<ref_seq, backing_store, frames, pra, phys_mem, page_table, tlb, addr_count, tlb_miss,
          page_miss, addr, p_num, p_offset, f_num, pc, output, summary, path,
          pt_before, fault_frames, calls>>

----------------------------------------------------------------------------
(* Bounds of the model. *)

\* PageTable(256): number of logical pages, scaled down.
NumPages == 4

\* frames > 256 -> 256: the largest frame count, scaled down.
MaxFrames == 3

\* TLB: 16 slots, scaled down.
TLBSize == 2

\* Longest reference file, in lines, of the runs under every policy; the runs
\* under one policy take files one line longer.
MaxLen == 4

\* page_size
PageSize == 256

Pages == 0 .. NumPages - 1

\* The value of a Python function that falls off its end.
NoneFrame == -2

Min(S) == CHOOSE x \in S : \A y \in S : x <= y

Max(S) == CHOOSE x \in S : \A y \in S : x >= y

----------------------------------------------------------------------------
(* Integer helpers: Python's >> and & on non-negative integers. *)

\* a >> n
ShiftRight(a, n) == a \div (2 ^ n)


\* A slip: the mask is taken as a modulus.
Mut_BitAnd(a, b) == a % b

RECURSIVE BitAnd(_, _)
\* a & b, bit by bit
BitAnd(a, b) ==
    IF a = 0 \/ b = 0 THEN 0
    ELSE (IF a % 2 = 1 /\ b % 2 = 1 THEN 1 ELSE 0) + 2 * BitAnd(a \div 2, b \div 2)

\* seq[k:] for a Python list, k a Python index (negative counts from the end).
PySliceFrom(seq, k) ==
    LET n == Len(seq)
        start == IF k < 0 THEN (IF n + k < 0 THEN 0 ELSE n + k)
                 ELSE (IF k > n THEN n ELSE k)
    IN  SubSeq(seq, start + 1, n)

\* seq[-1::-1]
Reversed(seq) == [i \in 1 .. Len(seq) |-> seq[Len(seq) + 1 - i]]

----------------------------------------------------------------------------
(* gen_addresses.py: the reference file written for a list of pages. *)

gen_addresses(ref_list) ==
    [i \in 1 .. Len(ref_list) |-> ref_list[i] * 256 + (i - 1)]

----------------------------------------------------------------------------
(* BackingStore.  The file is given by its size in bytes and a number its  *)
(* contents are computed from.  A bytes value read from it is given by the *)
(* file's contents, the page it starts at and its length; page -1 stands   *)
(* for zero bytes (b'\x00').                                               *)

\* The byte at a position of a file with these contents.
FileByte(fill, pos) ==
    (fill * (1 + pos \div PageSize) + 67 * (pos % PageSize)) % 256

\* data[i], for i < len(data)
DataByte(data, i) ==
    IF data.page = -1 THEN 0 ELSE FileByte(data.fill, data.page * PageSize + i)


\* file.seek(offset); return file.read(page_size): the bytes the file holds
\* from the offset on, at most page_size of them (none beyond its end).
BackingStore_read_page(self, page_number) ==
    LET offset == page_number * PageSize
        left == IF self.size > offset THEN self.size - offset ELSE 0
    IN  [fill |-> self.fill, page |-> page_number,
         size |-> IF left >= PageSize THEN PageSize ELSE left]

----------------------------------------------------------------------------
(* PhysicalMemory. *)

\* [b'\x00' * 256] * frame_count
PhysicalMemory_init(frame_count) ==
    [f \in 0 .. frame_count - 1 |-> [fill |-> 0, page |-> -1, size |-> 256]]

\* int.from_bytes(b, signed=True) for b of length 0 or 1
IntFromBytesSigned(b) ==
    IF Len(b) = 0 THEN 0 ELSE IF b[1] >= 128 THEN b[1] - 256 ELSE b[1]

\* int.from_bytes(self.memory[frame][offset:offset+1], signed=True)
PhysicalMemory_read_byte(memory, frame, offset) ==
    LET data == memory[frame]
        slice == IF offset < data.size THEN <<DataByte(data, offset)>> ELSE <<>>
    IN  IntFromBytesSigned(slice)

PhysicalMemory_read_frame(memory, frame_number) == memory[frame_number]

PhysicalMemory_write_frame(memory, frame_number, data) ==
    [memory EXCEPT ![frame_number] = data]

----------------------------------------------------------------------------
(* PageTable.  entries = [[-1, False]] * page_count makes every slot refer *)
(* to one list object: `shared` is that object, and own[p] is <<>> while   *)
(* slot p still refers to it, else the list load_frame put there.          *)

PageTable_init(page_count) ==
    [shared |-> <<-1, FALSE>>, own |-> [p \in 0 .. page_count - 1 |-> <<>>]]

\* self.entries[p]
Entry(pt, p) == IF pt.own[p] = <<>> THEN pt.shared ELSE pt.own[p]


\* A slip: the slot's list is written in place, entries[p][0] = frame and
\* entries[p][1] = True, instead of being replaced.
Mut_PageTable_load_frame(pt, physical_frame, logical_page) ==
    IF pt.own[logical_page] = <<>>
    THEN [pt EXCEPT !.shared = <<physical_frame, TRUE>>]
    ELSE [pt EXCEPT !.own[logical_page] = <<physical_frame, TRUE>>]

PageTable_load_frame(pt, physical_frame, logical_page) ==
    [pt EXCEPT !.own[logical_page] = <<physical_frame, TRUE>>]


\* A slip: the loaded flags are left as they are.
Mut_PageTable_unload_frame(pt, physical_frame) == pt

PageTable_unload_frame(pt, physical_frame) ==
    [shared |-> IF (\E p \in DOMAIN pt.own : pt.own[p] = <<>>)
                   /\ pt.shared[1] = physical_frame
                THEN <<pt.shared[1], FALSE>> ELSE pt.shared,
     own |-> [p \in DOMAIN pt.own |->
                IF pt.own[p] # <<>> /\ pt.own[p][1] = physical_frame
                THEN <<pt.own[p][1], FALSE>> ELSE pt.own[p]]]

PageTable_is_loaded(pt, logical_page) == Entry(pt, logical_page)[2]

PageTable_get_frame(pt, logical_page) ==
    IF Entry(pt, logical_page)[2] THEN Entry(pt, logical_page)[1] ELSE -1

----------------------------------------------------------------------------
(* TLB: a ring of (page, frame) slots; Python index i is slot i + 1. *)

TLB_init == [entries |-> [i \in 1 .. TLBSize |-> <<-1, -1>>], ptr |-> 0]

\* A slip: the page is compared with the slot's frame, entry[1].
Mut_TLB_get_frame(t, logical_page) ==
    LET hits == {i \in 1 .. TLBSize : t.entries[i][2] = logical_page}
    IN  IF hits = {} THEN -1 ELSE t.entries[Min(hits)][2]

TLB_get_frame(t, logical_page) ==
    LET hits == {i \in 1 .. TLBSize : t.entries[i][1] = logical_page}
    IN  IF hits = {} THEN -1 ELSE t.entries[Min(hits)][2]

TLB_add_page(t, logical_page, physical_frame) ==
    [entries |-> [t.entries EXCEPT ![t.ptr + 1] = <<logical_page, physical_frame>>],
     ptr |-> (t.ptr + 1) % TLBSize]

TLB_remove_page(t, logical_page) ==
    [t EXCEPT !.entries = [i \in 1 .. TLBSize |->
        IF t.entries[i][1] = logical_page THEN <<-1, -1>> ELSE t.entries[i]]]


\* A slip: the slots are matched on their page, as remove_page does.
Mut_TLB_remove_frame(t, physical_frame) == TLB_remove_page(t, physical_frame)

TLB_remove_frame(t, physical_frame) ==
    [t EXCEPT !.entries = [i \in 1 .. TLBSize |->
        IF t.entries[i][2] = physical_frame THEN <<-1, -1>> ELSE t.entries[i]]]

----------------------------------------------------------------------------
(* Page replacement algorithms.  next() returns the chosen frame together  *)
(* with the object after the call.  LRU and OPT hold a reference to main's *)
(* page table, passed here as pt.                                          *)

FIFO_init(frame_number) ==
    [kind |-> "fifo", frame_number |-> frame_number, oldest |-> 0]

FIFO_access(self, logical_page) == self


\* A slip: the cursor is advanced before it is read.
Mut_FIFO_next(self) ==
    [f |-> (self.oldest + 1) % self.frame_number,
     self |-> [self EXCEPT !.oldest = (self.oldest + 1) % self.frame_number]]

\* A slip: the cursor stops at the last frame instead of wrapping around.
Mut_FIFO_next_nowrap(self) ==
    [f |-> self.oldest,
     self |-> [self EXCEPT !.oldest = IF self.oldest + 1 < self.frame_number
                                      THEN self.oldest + 1 ELSE self.oldest]]

FIFO_next(self) ==
    [f |-> self.oldest,
     self |-> [self EXCEPT !.oldest = (self.oldest + 1) % self.frame_number]]

LRU_init(frame_number) ==
    [kind |-> "lru", frame_number |-> frame_number, history |-> <<>>]


\* A slip: only the first access to a page is recorded.
Mut_LRU_access(self, logical_page) ==
    IF \E i \in 1 .. Len(self.history) : self.history[i] = logical_page
    THEN self
    ELSE [self EXCEPT !.history = Append(self.history, logical_page)]

\* A slip: access does nothing, as FIFO's.
Mut_LRU_access_noop(self, logical_page) == self

LRU_access(self, logical_page) ==
    [self EXCEPT !.history = Append(self.history, logical_page)]

\* frames = [-1]*frame_number, then frames[entries[p][0]] = p for every loaded
\* p in increasing order: the last (largest) page loaded in a frame stays.
LoadedFrames(pt, frame_number) ==
    [f \in 0 .. frame_number - 1 |->
        LET ps == {p \in DOMAIN pt.own : Entry(pt, p)[2] /\ Entry(pt, p)[1] = f}
        IN  IF ps = {} THEN -1 ELSE Max(ps)]


\* A slip: the test for a free frame is inverted.
Mut_FreeFrames(fr) == {f \in DOMAIN fr : fr[f] # -1}

\* for f in range(frame_number): if frames[f] == -1: return f
FreeFrames(fr) == {f \in DOMAIN fr : fr[f] = -1}

\* frames.index(acc)
IndexOf(fr, acc) == Min({f \in DOMAIN fr : fr[f] = acc})

RECURSIVE LRU_scan(_, _, _, _)
\* for acc in self.history[-1::-1]: ...; falls off the end without a return
LRU_scan(fr, to_check, accs, i) ==
    IF i > Len(accs) THEN NoneFrame
    ELSE IF \A f \in DOMAIN fr : fr[f] # accs[i]
         THEN LRU_scan(fr, to_check, accs, i + 1)
    ELSE LET f == IndexOf(fr, accs[i])
             fr2 == IF fr[f] # -1 THEN [fr EXCEPT ![f] = -1] ELSE fr
             tc2 == IF fr[f] # -1 THEN to_check - 1 ELSE to_check
         IN  IF tc2 = 0 THEN f ELSE LRU_scan(fr2, tc2, accs, i + 1)

LRU_next(self, pt) ==
    LET fr == LoadedFrames(pt, self.frame_number)
    IN  [f |-> IF FreeFrames(fr) # {} THEN Min(FreeFrames(fr))
               ELSE LRU_scan(fr, self.frame_number, Reversed(self.history), 1),
         self |-> self]

OPT_init(frame_number, ref_lines) ==
    [kind |-> "opt", frame_number |-> frame_number,
     future |-> [i \in 1 .. Len(ref_lines) |-> ShiftRight(ref_lines[i], 8)],
     current |-> -1]


\* A slip: the cursor is not advanced.
Mut_OPT_access(self, logical_page) == self

OPT_access(self, logical_page) == [self EXCEPT !.current = self.current + 1]

RECURSIVE OPT_scan(_, _, _, _)
\* for acc in self.future[self.current:]: ...; then the final scan over frames
OPT_scan(fr, to_check, accs, i) ==
    IF i > Len(accs)
    THEN (IF \A f \in DOMAIN fr : fr[f] = -1 THEN NoneFrame
          ELSE Min({f \in DOMAIN fr : fr[f] # -1}))
    ELSE IF \A f \in DOMAIN fr : fr[f] # accs[i]
         THEN OPT_scan(fr, to_check, accs, i + 1)
    ELSE LET f == IndexOf(fr, accs[i])
             fr2 == IF fr[f] # -1 THEN [fr EXCEPT ![f] = -1] ELSE fr
             tc2 == IF fr[f] # -1 THEN to_check - 1 ELSE to_check
         IN  IF tc2 = 0 THEN f ELSE OPT_scan(fr2, tc2, accs, i + 1)


\* A slip: the scan starts at the head of the reference list, not at the cursor.
Mut_OPT_next(self, pt) ==
    LET fr == LoadedFrames(pt, self.frame_number)
    IN  [f |-> IF FreeFrames(fr) # {} THEN Min(FreeFrames(fr))
               ELSE OPT_scan(fr, self.frame_number, self.future, 1),
         self |-> self]

OPT_next(self, pt) ==
    LET fr == LoadedFrames(pt, self.frame_number)
    IN  [f |-> IF FreeFrames(fr) # {} THEN Min(FreeFrames(fr))
               ELSE OPT_scan(fr, self.frame_number,
                             PySliceFrom(self.future, self.current), 1),
         self |-> self]

\* pra.access(p_num)
pra_access(self, logical_page) ==
    CASE self.kind = "fifo" -> FIFO_access(self, logical_page)
      [] self.kind = "lru" -> LRU_access(self, logical_page)
      [] self.kind = "opt" -> OPT_access(self, logical_page)

\* pra.next()
pra_next(self, pt) ==
    CASE self.kind = "fifo" -> FIFO_next(self)
      [] self.kind = "lru" -> LRU_next(self, pt)
      [] self.kind = "opt" -> OPT_next(self, pt)

----------------------------------------------------------------------------
(* main(): one pass of the loop body after pra.access, from the TLB lookup *)
(* to tlb.add_page, over the run's objects s.                              *)


\* A slip: page_table.unload_frame(f_num) is left out.
Mut_FaultService(s, p) ==
    LET n == pra_next(s.pra, s.page_table)
        t1 == TLB_remove_frame(s.tlb, n.f)
    IN  IF n.f \notin DOMAIN s.phys_mem
        THEN [s EXCEPT !.pra = n.self, !.tlb = t1, !.f_num = n.f, !.path = "crash",
                       !.calls = Append(s.calls, <<"next", n.f>>)]
        ELSE [s EXCEPT !.pra = n.self, !.tlb = t1,
                       !.calls = Append(s.calls, <<"next", n.f>>),
                       !.phys_mem = PhysicalMemory_write_frame(
                                        s.phys_mem, n.f,
                                        BackingStore_read_page(s.backing_store, p)),
                       !.page_table = PageTable_load_frame(s.page_table, n.f, p),
                       !.f_num = n.f, !.path = "fault"]

\* f_num = pra.next() ... page_table.load_frame(f_num, p_num)
FaultService(s, p) ==
    LET n == pra_next(s.pra, s.page_table)
        t1 == TLB_remove_frame(s.tlb, n.f)
        pt1 == PageTable_unload_frame(s.page_table, n.f)
    IN  IF n.f \notin DOMAIN s.phys_mem
        THEN \* phys_mem.write_frame raises: the run ends there
             [s EXCEPT !.pra = n.self, !.tlb = t1, !.page_table = pt1,
                       !.f_num = n.f, !.path = "crash",
                       !.calls = Append(s.calls, <<"next", n.f>>)]
        ELSE [s EXCEPT !.pra = n.self, !.tlb = t1,
                       !.calls = Append(s.calls, <<"next", n.f>>),
                       !.phys_mem = PhysicalMemory_write_frame(
                                        s.phys_mem, n.f,
                                        BackingStore_read_page(s.backing_store, p)),
                       !.page_table = PageTable_load_frame(pt1, n.f, p),
                       !.f_num = n.f, !.path = "fault"]


\* A slip: the page fault is served on every TLB miss, before the page table
\* is asked.
Mut_Translate(s, p) ==
    LET f1 == TLB_get_frame(s.tlb, p)
        s0 == [s EXCEPT !.calls = Append(s.calls, <<"tlb.get_frame", p, f1>>)]
        s2 == FaultService([s0 EXCEPT !.tlb_miss = s.tlb_miss + 1,
                                      !.page_miss = s.page_miss + 1], p)
    IN  IF f1 # -1 THEN [s0 EXCEPT !.f_num = f1, !.path = "tlb_hit"]
        ELSE IF s2.path = "crash" THEN s2
        ELSE [s2 EXCEPT !.tlb = TLB_add_page(s2.tlb, p, s2.f_num)]

\* A slip of indentation: page_miss += 1 stands under the first `if`.
Mut_Translate_count(s, p) ==
    LET f1 == TLB_get_frame(s.tlb, p)
        f2 == PageTable_get_frame(s.page_table, p)
        s0 == [s EXCEPT !.calls = Append(s.calls, <<"tlb.get_frame", p, f1>>)]
        s1 == [s0 EXCEPT !.tlb_miss = s.tlb_miss + 1,
                         !.page_miss = s.page_miss + 1,
                         !.calls = Append(s0.calls, <<"page_table.get_frame", p, f2>>)]
        s2 == FaultService(s1, p)
    IN  IF f1 # -1 THEN [s0 EXCEPT !.f_num = f1, !.path = "tlb_hit"]
        ELSE IF f2 # -1
             THEN [s1 EXCEPT !.tlb = TLB_add_page(s.tlb, p, f2),
                             !.f_num = f2, !.path = "pt_hit"]
        ELSE IF s2.path = "crash" THEN s2
        ELSE [s2 EXCEPT !.tlb = TLB_add_page(s2.tlb, p, s2.f_num)]

\* A slip of indentation: tlb.add_page(p_num, f_num) stands after the `if`,
\* and so runs on a TLB hit as well.
Mut_Translate_add(s, p) ==
    LET f1 == TLB_get_frame(s.tlb, p)
        f2 == PageTable_get_frame(s.page_table, p)
        s0 == [s EXCEPT !.calls = Append(s.calls, <<"tlb.get_frame", p, f1>>)]
        s1 == [s0 EXCEPT !.tlb_miss = s.tlb_miss + 1,
                         !.calls = Append(s0.calls, <<"page_table.get_frame", p, f2>>)]
        s2 == FaultService([s1 EXCEPT !.page_miss = s.page_miss + 1], p)
    IN  IF f1 # -1
        THEN [s0 EXCEPT !.tlb = TLB_add_page(s.tlb, p, f1),
                        !.f_num = f1, !.path = "tlb_hit"]
        ELSE IF f2 # -1
             THEN [s1 EXCEPT !.tlb = TLB_add_page(s.tlb, p, f2),
                             !.f_num = f2, !.path = "pt_hit"]
        ELSE IF s2.path = "crash" THEN s2
        ELSE [s2 EXCEPT !.tlb = TLB_add_page(s2.tlb, p, s2.f_num)]

\* f_num = tlb.get_frame(p_num) ... tlb.add_page(p_num, f_num)
Translate(s, p) ==
    LET f1 == TLB_get_frame(s.tlb, p)
        f2 == PageTable_get_frame(s.page_table, p)
        s0 == [s EXCEPT !.calls = Append(s.calls, <<"tlb.get_frame", p, f1>>)]
        s1 == [s0 EXCEPT !.tlb_miss = s.tlb_miss + 1,
                         !.calls = Append(s0.calls, <<"page_table.get_frame", p, f2>>)]
        s2 == FaultService([s1 EXCEPT !.page_miss = s.page_miss + 1], p)
    IN  IF f1 # -1 THEN [s0 EXCEPT !.f_num = f1, !.path = "tlb_hit"]
        ELSE IF f2 # -1
             THEN [s1 EXCEPT !.tlb = TLB_add_page(s.tlb, p, f2),
                             !.f_num = f2, !.path = "pt_hit"]
        ELSE IF s2.path = "crash" THEN s2
        ELSE [s2 EXCEPT !.tlb = TLB_add_page(s2.tlb, p, s2.f_num)]

\* pra.access(p_num), the first call of the loop body on the run's objects.
Access(s, p) ==
    [s EXCEPT !.pra = pra_access(s.pra, p), !.calls = <<<<"access", p>>>>]

\* The objects of the run, as Translate takes them.
Objects ==
    [backing_store |-> backing_store, pra |-> pra, tlb |-> tlb,
     page_table |-> page_table, phys_mem |-> phys_mem,
     tlb_miss |-> tlb_miss, page_miss |-> page_miss, f_num |-> f_num,
     path |-> path, calls |-> calls]

\* "{:.3f}".format(num/den), in thousandths: round to nearest, ties to even.
\* (A tie is exact in floating point only when den is a multiple of 16.)
Format3(num, den) ==
    LET q == (1000 * num) \div den
        r == (1000 * num) % den
    IN  IF 2 * r > den \/ (2 * r = den /\ q % 2 = 1) THEN q + 1 ELSE q

----------------------------------------------------------------------------
(* Inputs. *)

\* The page lists gen_addresses is given, up to a length.
RefLists(max_len) == UNION {[1 .. n -> Pages] : n \in 0 .. max_len}

\* The reference files gen_addresses writes for them.
RefFiles(max_len) == {gen_addresses(ref_list) : ref_list \in RefLists(max_len)}

\* sys.argv[2]; 0 also stands for a missing argument.
FrameArgs == 0 .. MaxFrames + 1

\* frames <= 0 or frames > 256 -> 256
ClampFrames(arg) == IF arg <= 0 \/ arg > MaxFrames THEN MaxFrames ELSE arg

\* sys.argv[3]; "" stands for a missing or unrecognised argument.
PraArgs == {"fifo", "lru", "opt", ""}

MakePra(arg, frame_number, ref_lines) ==
    IF arg = "lru" THEN LRU_init(frame_number)
    ELSE IF arg = "opt" THEN OPT_init(frame_number, ref_lines)
    ELSE FIFO_init(frame_number)

\* A backing store file that holds every page: page_count pages of 256 bytes.
FullStore(page_count) == [size |-> page_count * PageSize, fill |-> 101]

\* main() up to the loop, for a reference file, a backing store file, a frame
\* count, a policy object and the size of the page table.
StartOn(ref_lines, store, frame_count, policy, page_count) ==
    /\ ref_seq = ref_lines
    /\ backing_store = store
    /\ frames = frame_count
    /\ pra = policy
    /\ phys_mem = PhysicalMemory_init(frame_count)
    /\ page_table = PageTable_init(page_count)
    /\ tlb = TLB_init
    /\ addr_count = 0
    /\ tlb_miss = 0
    /\ page_miss = 0
    /\ addr = -1
    /\ p_num = -1
    /\ p_offset = -1
    /\ f_num = -1
    /\ pc = "read"
    /\ output = <<>>
    /\ summary = <<>>
    /\ path = "none"
    /\ pt_before = PageTable_init(page_count)
    /\ fault_frames = <<>>
    /\ calls = <<>>

\* The same with a backing store file that holds every page.
Start(ref_lines, frame_count, policy, page_count) ==
    StartOn(ref_lines, FullStore(page_count), frame_count, policy, page_count)

\* The runs of a set of reference files on a set of backing store files, under
\* every frame argument and a set of policy arguments.
RunsOn(files, stores, pra_args) ==
    \E ref_lines \in files :
        \E store \in stores :
            \E frame_count \in {ClampFrames(a) : a \in FrameArgs} :
                \E policy \in {MakePra(a, frame_count, ref_lines) : a \in pra_args} :
                    StartOn(ref_lines, store, frame_count, policy, NumPages)

\* The runs on a backing store file that holds every page.
Runs(files, pra_args) == RunsOn(files, {FullStore(NumPages)}, pra_args)

Init == Runs(RefFiles(MaxLen), PraArgs)

----------------------------------------------------------------------------
(* The loop of main(): one action per way an address is translated, each   *)
(* the whole loop body for the next line of the reference file.            *)

\* addr = int(addr.strip())
NextAddr == ref_seq[addr_count + 1]

\* The loop body's assignments and its print, for the objects r the calls of
\* the body leave, the page p and the offset off of the next address.
Commit(r, p, off) ==
        /\ addr_count' = addr_count + 1
        /\ addr' = NextAddr
        /\ p_num' = p
        /\ p_offset' = off
        /\ pra' = r.pra
        /\ tlb' = r.tlb
        /\ page_table' = r.page_table
        /\ phys_mem' = r.phys_mem
        /\ tlb_miss' = r.tlb_miss
        /\ page_miss' = r.page_miss
        /\ f_num' = r.f_num
        /\ path' = r.path
        /\ pt_before' = page_table
        /\ fault_frames' = IF r.path \in {"fault", "crash"}
                           THEN Append(fault_frames, r.f_num) ELSE fault_frames
        /\ calls' = r.calls
        /\ IF r.path = "crash"
           THEN pc' = "crash" /\ output' = output
           ELSE /\ pc' = "read"
                /\ output' = <<NextAddr,
                               PhysicalMemory_read_byte(r.phys_mem, r.f_num, off),
                               r.f_num,
                               PhysicalMemory_read_frame(r.phys_mem, r.f_num)>>
        /\ UNCHANGED <<ref_seq, backing_store, frames, summary>>


\* A slip: whether the page table is asked before the fault is served is left
\* to chance.
Mut_LoopBody(p, off) ==
    \E r \in {Translate(Access(Objects, p), p),
               Mut_Translate(Access(Objects, p), p)} : Commit(r, p, off)

\* for addr in ref_seq: ... print(...), for the page p and the offset off of
\* the next address.
LoopBody(p, off) ==
    \E r \in {Translate(Access(Objects, p), p)} : Commit(r, p, off)

\* tlb.get_frame(p_num) finds the page.
TLBHit ==
    /\ pc = "read"
    /\ addr_count < Len(ref_seq)
    /\ \E p \in {ShiftRight(NextAddr, 8)} :
        /\ TLB_get_frame(tlb, p) # -1
        /\ \E off \in {BitAnd(NextAddr, 255)} : LoopBody(p, off)

\* The TLB misses and page_table.get_frame(p_num) finds the page.
PTHit ==
    /\ pc = "read"
    /\ addr_count < Len(ref_seq)
    /\ \E p \in {ShiftRight(NextAddr, 8)} :
        /\ TLB_get_frame(tlb, p) = -1
        /\ PageTable_get_frame(page_table, p) # -1
        /\ \E off \in {BitAnd(NextAddr, 255)} : LoopBody(p, off)

\* Both miss: the page fault is served.
PageFault ==
    /\ pc = "read"
    /\ addr_count < Len(ref_seq)
    /\ \E p \in {ShiftRight(NextAddr, 8)} :
        /\ TLB_get_frame(tlb, p) = -1
        /\ PageTable_get_frame(page_table, p) = -1
        /\ \E off \in {BitAnd(NextAddr, 255)} : LoopBody(p, off)

\* The prints after the loop; the first division raises when no address was read.
Summary ==
    /\ pc = "read"
    /\ addr_count = Len(ref_seq)
    /\ IF addr_count = 0
       THEN /\ pc' = "crash"
            /\ summary' = [translated |-> addr_count, faults |-> page_miss,
                           error |-> "ZeroDivisionError"]
       ELSE /\ pc' = "done"
            /\ summary' = [translated |-> addr_count, faults |-> page_miss,
                           fault_rate |-> Format3(page_miss, addr_count),
                           hits |-> addr_count - tlb_miss,
                           misses |-> tlb_miss,
                           hit_rate |-> Format3(addr_count - tlb_miss, addr_count),
                           error |-> ""]
    /\ UNCHANGED <<ref_seq, backing_store, frames, pra, phys_mem, page_table,
                   tlb, addr_count,
                   tlb_miss, page_miss, addr, p_num, p_offset, f_num, output,
                   path, pt_before, fault_frames, calls>>

Next == TLBHit \/ PTHit \/ PageFault \/ Summary

Spec == Init /\ [][Next]_vars

----------------------------------------------------------------------------
(* The runs under one policy, on files one line longer. *)

InitFIFO == Runs(RefFiles(MaxLen + 1), {"fifo", ""})

SpecFIFO == InitFIFO /\ [][Next]_vars

InitLRU == Runs(RefFiles(MaxLen + 1), {"lru"})

SpecLRU == InitLRU /\ [][Next]_vars

InitOPT == Runs(RefFiles(MaxLen + 1), {"opt"})

SpecOPT == InitOPT /\ [][Next]_vars

----------------------------------------------------------------------------
(* The runs on backing store files of every length up to the full one: the *)
(* files that end at a page boundary, and those that end two bytes after.  *)

StoreSizes ==
    {k * PageSize + d : k \in 0 .. NumPages - 1, d \in {0, 2}}
        \cup {NumPages * PageSize}

Stores == {[size |-> n, fill |-> 101] : n \in StoreSizes}

InitStore == RunsOn(RefFiles(MaxLen), Stores, PraArgs)

SpecStore == InitStore /\ [][Next]_vars

----------------------------------------------------------------------------
(* The loop of main() run to its end on the reference file, under another  *)
(* policy argument: what `memSim <file> <frames> <arg>` counts.            *)

RECURSIVE RunFrom(_, _, _)
\* The objects after lines i.. of the file, from the objects s.
RunFrom(s, ref_lines, i) ==
    IF i > Len(ref_lines) \/ s.path = "crash" THEN s
    ELSE LET p == ShiftRight(ref_lines[i], 8)
         IN  RunFrom(Translate(Access(s, p), p), ref_lines, i + 1)

\* The objects main() sets up for this run's files and frame count under
\* pra_arg.
Fresh(pra_arg) ==
    [backing_store |-> backing_store,
     pra |-> MakePra(pra_arg, frames, ref_seq),
     tlb |-> TLB_init,
     page_table |-> PageTable_init(Cardinality(DOMAIN page_table.own)),
     phys_mem |-> PhysicalMemory_init(frames),
     tlb_miss |-> 0, page_miss |-> 0, f_num |-> -1, path |-> "none",
     calls |-> <<>>]

\* page_miss at the end of the run of this file and frame count under pra_arg.
PageFaultsUnder(pra_arg) == RunFrom(Fresh(pra_arg), ref_seq, 1).page_miss

----------------------------------------------------------------------------
(* The runs of the trace gen_addresses.py writes when run as a program,    *)
(* next to the runs of the short files.                                    *)

\* gen_addresses([1, 2, 3, 4, 2, 1, 5, 6, 2, 1, 2, 3, 7, 6, 3, 2, 1, 2, 3, 6])
TraceList == <<1, 2, 3, 4, 2, 1, 5, 6, 2, 1, 2, 3, 7, 6, 3, 2, 1, 2, 3, 6>>

\* A page table that holds the pages of the trace.
TracePages == Max({TraceList[i] : i \in DOMAIN TraceList}) + 1

InitTrace ==
    \/ Init
    \/ \E frame_count \in {ClampFrames(a) : a \in FrameArgs} :
           \E policy \in {MakePra(a, frame_count, gen_addresses(TraceList)) :
                              a \in PraArgs} :
               Start(gen_addresses(TraceList), frame_count, policy, TracePages)

SpecTrace == InitTrace /\ [][Next]_vars

----------------------------------------------------------------------------
(* The decomposition of an address, on every address of the logical        *)
(* address space: the first statements of the loop body on a one-line file.*)

\* PageTable(256)
PageCount == 256

AddressSpace == 0 .. PageCount * PageSize - 1

InitAddr ==
    \E a \in AddressSpace :
        Start(<<a>>, ClampFrames(0), MakePra("", ClampFrames(0), <<a>>), NumPages)

\* addr_count += 1; addr = int(addr.strip()); p_num = addr >> 8;
\* p_offset = addr & 0xff
Decode ==
    /\ pc = "read"
    /\ addr_count < Len(ref_seq)
    /\ addr_count' = addr_count + 1
    /\ addr' = NextAddr
    /\ p_num' = ShiftRight(NextAddr, 8)
    /\ p_offset' = BitAnd(NextAddr, 255)
    /\ pc' = "decoded"
    /\ UNCHANGED <<ref_seq, backing_store, frames, pra, phys_mem, page_table,
                   tlb, tlb_miss,
                   page_miss, f_num, output, summary, path, pt_before,
                   fault_frames, calls>>

SpecAddr == InitAddr /\ [][Decode]_vars

----------------------------------------------------------------------------
(* Notions the properties are stated with. *)

\* The pages a page table has loaded.
Loaded(pt) == {p \in DOMAIN pt.own : PageTable_is_loaded(pt, p)}

\* The pages a page table has loaded in frame f.
PagesIn(pt, f) == {p \in Loaded(pt) : Entry(pt, p)[1] = f}

\* The frames that held no loaded page when the last lookup began.
FreeBefore == {f \in 0 .. frames - 1 : PagesIn(pt_before, f) = {}}

\* The pages that were loaded in the last chosen frame when the lookup began.
EvictedPages == PagesIn(pt_before, f_num)

\* The valid slots of the TLB.
ValidSlots == {i \in DOMAIN tlb.entries : tlb.entries[i] # <<-1, -1>>}

----------------------------------------------------------------------------
(* C1: every valid TLB slot (page, frame) agrees with the page table: the  *)
(* page is loaded and its frame is the slot's frame; so a TLB hit returns  *)
(* the frame the page table returns.  Under every policy and frame count.  *)
C1_TLBAgreesWithPageTable ==
    /\ \A i \in ValidSlots :
        /\ tlb.entries[i][1] \in DOMAIN page_table.own
        /\ PageTable_is_loaded(page_table, tlb.entries[i][1])
        /\ Entry(page_table, tlb.entries[i][1])[1] = tlb.entries[i][2]
    /\ \A p \in DOMAIN page_table.own :
        TLB_get_frame(tlb, p) # -1 =>
            TLB_get_frame(tlb, p) = PageTable_get_frame(page_table, p)

\* A TLB hit on a page, after some page has been evicted from a frame.
C1_Witness ==
    /\ path = "tlb_hit"
    /\ page_miss > frames
    /\ f_num = PageTable_get_frame(page_table, p_num)

(* C2: after a page fault is served, the pages that were loaded in the     *)
(* chosen frame are not loaded (is_loaded false, get_frame -1) and are in  *)
(* no TLB slot; the faulted page is the only page loaded in that frame.    *)
C2_NoDanglingMapping ==
    path = "fault" =>
        /\ \A q \in EvictedPages :
            /\ ~PageTable_is_loaded(page_table, q)
            /\ PageTable_get_frame(page_table, q) = -1
            /\ \A i \in DOMAIN tlb.entries : tlb.entries[i][1] # q
        /\ PagesIn(page_table, f_num) = {p_num}
        /\ \A i \in DOMAIN tlb.entries :
            tlb.entries[i][2] = f_num => tlb.entries[i][1] = p_num

\* A fault served in a frame that held a page, which was also in the TLB's reach.
C2_Witness ==
    /\ path = "fault"
    /\ EvictedPages # {}
    /\ p_num \notin EvictedPages
    /\ TLB_get_frame(tlb, p_num) = f_num

(* C3: under FIFO with n frames, the k-th page fault of a run is served in *)
(* frame (k-1) mod n, whatever is accessed between the faults.             *)
C3_FIFORoundRobin ==
    pra.kind = "fifo" =>
        \A k \in 1 .. Len(fault_frames) : fault_frames[k] = (k - 1) % frames

\* Three frames: the faults fill 0, 1, 2, then the fourth evicts frame 0,
\* with an access that did not fault among them.
C3_Witness ==
    /\ pra.kind = "fifo"
    /\ frames = 3
    /\ fault_frames = <<0, 1, 2, 0>>
    /\ addr_count > Len(fault_frames)

----------------------------------------------------------------------------
(* Recency and next use, read off the reference file. *)

\* The pages of the lines read so far, but the last: the accesses before the
\* one being served.
Past == [i \in 1 .. addr_count - 1 |-> ShiftRight(ref_seq[i], 8)]

\* The pages of the lines still to read: the accesses after the one served.
Rest == [i \in 1 .. Len(ref_seq) - addr_count |->
            ShiftRight(ref_seq[addr_count + i], 8)]

\* The position of the most recent access to q before the one served (0: none).
LastAccess(q) == Max({0} \cup {i \in DOMAIN Past : Past[i] = q})

Never == Len(ref_seq) + 1

\* The position of the next access to q after the one served (Never: none).
NextUse(q) == Min({Never} \cup {i \in DOMAIN Rest : Rest[i] = q})

(* C4: under LRU, a page fault with every frame holding a loaded page is   *)
(* served in the frame of the resident page whose most recent access is    *)
(* the earliest; hits in the TLB and in the page table count as accesses.  *)
C4_LRUEvictsLeastRecent ==
    (pra.kind = "lru" /\ path = "fault" /\ FreeBefore = {}) =>
        /\ Cardinality(EvictedPages) = 1
        /\ \A q \in EvictedPages :
            \A r \in Loaded(pt_before) \ {q} : LastAccess(q) < LastAccess(r)

\* Three frames filled by A, B, C, then A accessed again: the fault evicts B's
\* frame 1, not A's frame 0.
C4_Witness ==
    /\ pra.kind = "lru"
    /\ frames = 3
    /\ path = "fault"
    /\ fault_frames = <<0, 1, 2, 1>>
    /\ addr_count = 5
    /\ Past[4] = Past[1]

(* C5: under OPT, a page fault with every frame holding a loaded page is   *)
(* served in the frame of a resident page that is never referenced again,  *)
(* if there is one, and else of the resident page whose next reference is  *)
(* the furthest.                                                           *)
C5_OPTEvictsFurthest ==
    (pra.kind = "opt" /\ path = "fault" /\ FreeBefore = {}) =>
        /\ Cardinality(EvictedPages) = 1
        /\ \A q \in EvictedPages :
            \A r \in Loaded(pt_before) : NextUse(r) <= NextUse(q)

\* Every resident page is referenced again, and the one evicted is the one
\* referenced last; it is not the page FIFO or LRU would evict.
C5_Witness ==
    /\ pra.kind = "opt"
    /\ path = "fault"
    /\ FreeBefore = {}
    /\ frames > 1
    /\ \A r \in Loaded(pt_before) : NextUse(r) < Never
    /\ \E q \in EvictedPages :
        \E r \in Loaded(pt_before) \ {q} :
            /\ NextUse(r) < NextUse(q)
            /\ LastAccess(r) < LastAccess(q)

(* C6: the loaded page table entries are an injective map from pages to    *)
(* frames 0 .. frame_count-1: no two loaded pages share a frame, so at     *)
(* most frame_count pages are loaded.                                      *)
C6_LoadedInjective ==
    /\ \A p \in Loaded(page_table) : Entry(page_table, p)[1] \in 0 .. frames - 1
    /\ \A p, q \in Loaded(page_table) :
        Entry(page_table, p)[1] = Entry(page_table, q)[1] => p = q
    /\ Cardinality(Loaded(page_table)) <= frames

\* Every frame holds a page and a page has been evicted.
C6_Witness ==
    /\ frames > 1
    /\ Cardinality(Loaded(page_table)) = frames
    /\ page_miss > frames

(* C7: under LRU and OPT, a page fault with a frame holding no loaded page *)
(* is served in the lowest such frame and evicts nothing; so the first     *)
(* frame_count faults of a run fill frames 0, 1, ... in order.             *)
C7_FreeFrameFirst ==
    pra.kind \in {"lru", "opt"} =>
        /\ (path = "fault" /\ FreeBefore # {}) =>
            /\ f_num = Min(FreeBefore)
            /\ EvictedPages = {}
            /\ Loaded(pt_before) \subseteq Loaded(page_table)
        /\ \A k \in 1 .. Len(fault_frames) :
            k <= frames => fault_frames[k] = k - 1

\* The last free frame of three is filled after an access that did not fault.
C7_Witness ==
    /\ pra.kind \in {"lru", "opt"}
    /\ frames = 3
    /\ path = "fault"
    /\ FreeBefore = {2}
    /\ f_num = 2
    /\ addr_count > 3

(* C8: on the same reference file and frame count, the page faults of a    *)
(* run under OPT are at most those of the run under FIFO and under LRU.    *)
C8_OPTFewestFaults ==
    (pra.kind = "opt" /\ addr_count = Len(ref_seq)) =>
        /\ page_miss <= PageFaultsUnder("fifo")
        /\ page_miss <= PageFaultsUnder("lru")

\* A file on which OPT faults less often than both.
C8_Witness ==
    /\ pra.kind = "opt"
    /\ pc = "done"
    /\ page_miss < PageFaultsUnder("fifo")
    /\ page_miss < PageFaultsUnder("lru")

(* C9: for every reference file the summary reports a page fault rate and *)
(* a TLB hit rate within [0, 1] (0 .. 1000 thousandths): the counters      *)
(* satisfy 0 <= page_miss <= tlb_miss <= addr_count and the divisor        *)
(* addr_count is valid when the rates are computed.                        *)
C9_RatesWithinUnitInterval ==
    /\ 0 <= page_miss /\ page_miss <= tlb_miss /\ tlb_miss <= addr_count
    /\ (pc \in {"done", "crash"} /\ path # "crash") =>
        /\ summary.error = ""
        /\ summary.fault_rate \in 0 .. 1000
        /\ summary.hit_rate \in 0 .. 1000

(* C10: for every 16-bit address, page = addr >> 8 and offset = addr & 0xFF *)
(* give page*256 + offset = addr with page and offset in 0 .. 255.          *)
C10_DecompositionRoundTrip ==
    pc = "decoded" =>
        /\ p_num * PageSize + p_offset = addr
        /\ p_num \in 0 .. PageCount - 1
        /\ p_offset \in 0 .. PageSize - 1

\* The last address of the space is decomposed into the last page and offset.
C10_Witness ==
    /\ pc = "decoded"
    /\ addr = 65535
    /\ p_num = 255
    /\ p_offset = 255

----------------------------------------------------------------------------
(* C11: read_page(page_number) fails with a fatal I/O error whenever the   *)
(* backing file holds fewer than (page_number+1)*256 bytes: no frame ever  *)
(* holds fewer than 256 bytes, and a page fault on such a page ends the    *)
(* run instead of translating the address.                                 *)
C11_ShortFileIsFatal ==
    /\ \A f \in DOMAIN phys_mem : phys_mem[f].size = PageSize
    /\ (path \in {"fault", "crash"}
            /\ backing_store.size < (p_num + 1) * PageSize) =>
        pc = "crash"

\* The calls of the last loop body with this name.
CallsOf(name) == {i \in DOMAIN calls : calls[i][1] = name}

(* C12: for every address, access(page) is called exactly once and before  *)
(* the TLB lookup, on a hit as on a miss; next() is called exactly when the *)
(* TLB lookup and the page table lookup both miss, and at most once.        *)
C12_PolicyCallProtocol ==
    /\ addr_count > 0 =>
        /\ CallsOf("access") = {1}
        /\ calls[1] = <<"access", p_num>>
        /\ CallsOf("tlb.get_frame") = {2}
        /\ calls[2][2] = p_num
        /\ Cardinality(CallsOf("next")) <= 1
        /\ CallsOf("next") # {} <=>
            /\ calls[2][3] = -1
            /\ \E i \in CallsOf("page_table.get_frame") :
                /\ i < Min(CallsOf("next") \cup {Len(calls) + 1})
                /\ calls[i] = <<"page_table.get_frame", p_num, -1>>
    /\ pra.kind = "lru" => Len(pra.history) = addr_count
    /\ pra.kind = "opt" => pra.current = addr_count - 1

\* A page table hit after three page faults under LRU: access was called
\* first and recorded, both lookups followed and next() was not called.
C12_Witness ==
    /\ addr_count > 3
    /\ pra.kind = "lru"
    /\ path = "pt_hit"
    /\ calls = <<<<"access", p_num>>, <<"tlb.get_frame", p_num, -1>>,
                 <<"page_table.get_frame", p_num, f_num>>>>
    /\ page_miss = 3
    /\ Len(pra.history) = 4

C14_NoFaultNoChange ==
    [][/\ (addr_count' = addr_count + 1 /\ path' \in {"tlb_hit", "pt_hit"}) =>
            /\ page_table' = page_table
            /\ phys_mem' = phys_mem
            /\ page_miss' = page_miss
       /\ (page_table' # page_table \/ phys_mem' # phys_mem) =>
            /\ addr_count' = addr_count + 1
            /\ path' = "fault"
            /\ page_miss' = page_miss + 1]_vars

\* A page table hit with every frame filled: the table is as it was before
\* the lookup and the counter still counts the three faults.
C14_Witness ==
    /\ path = "pt_hit"
    /\ page_table = pt_before
    /\ Cardinality(Loaded(page_table)) = 3
    /\ page_miss = 3
    /\ \A f \in DOMAIN phys_mem : phys_mem[f].page # -1

\* The pages of the lines read so far.
Referenced == {ShiftRight(ref_seq[i], 8) : i \in 1 .. addr_count}

(* C15: the page table entries behave as independent values per page: the *)
(* load_frame(f, p) of a fault changes the entry of p alone, the           *)
(* unload_frame(f) before it changes nothing but the loaded flag of the    *)
(* entries whose frame is f, a translation without fault changes nothing,  *)
(* and a page that was never loaded is never loaded by is_loaded and has   *)
(* get_frame -1: the shared default entry stays [-1, False].               *)
C15_EntriesIndependent ==
    /\ page_table.shared = <<-1, FALSE>>
    /\ \A q \in DOMAIN page_table.own \ Referenced :
        /\ ~PageTable_is_loaded(page_table, q)
        /\ PageTable_get_frame(page_table, q) = -1
        /\ Entry(page_table, q) = <<-1, FALSE>>
    /\ path = "fault" =>
        /\ Entry(page_table, p_num) = <<f_num, TRUE>>
        /\ \A q \in DOMAIN page_table.own \ {p_num} :
            /\ Entry(page_table, q)[1] = Entry(pt_before, q)[1]
            /\ Entry(page_table, q)[2] # Entry(pt_before, q)[2] =>
                /\ Entry(pt_before, q) = <<f_num, TRUE>>
                /\ Entry(page_table, q) = <<f_num, FALSE>>
            /\ Entry(pt_before, q)[1] = f_num => ~Entry(page_table, q)[2]
    /\ path \in {"tlb_hit", "pt_hit"} =>
        \A q \in DOMAIN page_table.own : Entry(page_table, q) = Entry(pt_before, q)

\* A fault has unloaded a page from its frame and loaded another, while a
\* page that was never referenced still has the default entry.
C15_Witness ==
    /\ path = "fault"
    /\ EvictedPages # {}
    /\ p_num \notin EvictedPages
    /\ \E q \in DOMAIN page_table.own \ Referenced :
        PageTable_get_frame(page_table, q) = -1
    /\ \E q \in EvictedPages : Entry(page_table, q) = <<f_num, FALSE>>

\* The frames that hold no loaded page.
FreeNow == {f \in 0 .. frames - 1 : PagesIn(page_table, f) = {}}

\* The number of the page fault, before the last one, that loaded the page
\* frame f held when the last fault was served (0: none).
LoadedBy(f) ==
    Max({0} \cup {k \in 1 .. Len(fault_frames) - 1 : fault_frames[k] = f})

(* C16: under FIFO the round-robin cursor is classic FIFO: a page fault    *)
(* with every frame holding a loaded page evicts the resident page that    *)
(* was loaded earliest, and while a frame holds no loaded page the cursor  *)
(* points at such a frame, so the faults before that point evict nothing.  *)
C16_CursorIsClassicFIFO ==
    pra.kind = "fifo" =>
        /\ FreeNow # {} => pra.oldest \in FreeNow
        /\ (path = "fault" /\ FreeBefore # {}) =>
            /\ f_num \in FreeBefore
            /\ EvictedPages = {}
        /\ (path = "fault" /\ FreeBefore = {}) =>
            /\ Cardinality(EvictedPages) = 1
            /\ \A q \in EvictedPages :
                \A r \in Loaded(pt_before) \ {q} :
                    /\ LoadedBy(Entry(pt_before, q)[1]) > 0
                    /\ LoadedBy(Entry(pt_before, q)[1])
                            < LoadedBy(Entry(pt_before, r)[1])

\* Three frames under FIFO: the fifth fault evicts the page the second fault
\* loaded, the earliest loaded of the three resident pages.
C16_Witness ==
    /\ pra.kind = "fifo"
    /\ frames = 3
    /\ path = "fault"
    /\ FreeBefore = {}
    /\ Len(fault_frames) = 5
    /\ LoadedBy(f_num) = 2
    /\ Cardinality(EvictedPages) = 1

(* C17: no two valid TLB slots hold the same page and no two hold the same *)
(* frame, so the valid slots are at most as many as the TLB has slots and  *)
(* at most as many as there are loaded pages.                              *)
C17_TLBSlotsDistinct ==
    /\ \A i, j \in ValidSlots :
        i # j =>
            /\ tlb.entries[i][1] # tlb.entries[j][1]
            /\ tlb.entries[i][2] # tlb.entries[j][2]
    /\ \A i \in DOMAIN tlb.entries :
        tlb.entries[i][1] = -1 <=> tlb.entries[i][2] = -1
    /\ Cardinality(ValidSlots) <= Min({TLBSize, Cardinality(Loaded(page_table))})

\* The TLB was full, a fault then cleared the slot of the frame it chose and
\* the new page went into another slot, over a page that stays loaded.
C17_Witness ==
    /\ path = "fault"
    /\ EvictedPages # {}
    /\ TLB_get_frame(tlb, p_num) = f_num
    /\ Cardinality(ValidSlots) = TLBSize - 1
    /\ Cardinality(Loaded(page_table)) > Cardinality(ValidSlots)

(* C18: every next() the translator calls returns a frame index in         *)
(* 0 .. frame_count-1 under FIFO, LRU and OPT, so no run ends in the fault *)
(* service; under LRU every loaded page occurs in the access history, so   *)
(* the history scan does not fall off its end without a result.            *)
C18_NextReturnsFrame ==
    /\ \A k \in DOMAIN fault_frames : fault_frames[k] \in 0 .. frames - 1
    /\ \A i \in CallsOf("next") : calls[i][2] \in 0 .. frames - 1
    /\ path # "crash"
    /\ path = "fault" => f_num \in 0 .. frames - 1
    /\ pra.kind = "lru" =>
        \A q \in Loaded(page_table) :
            \E i \in DOMAIN pra.history : pra.history[i] = q
    /\ pra.kind = "opt" =>
        /\ pra.current = addr_count - 1
        /\ pra.current < Len(pra.future)

\* Under LRU with every frame loaded, the history scan has returned the
\* last frame, after a run of accesses to one page.
C18_Witness ==
    /\ pra.kind = "lru"
    /\ path = "fault"
    /\ FreeBefore = {}
    /\ frames = 2
    /\ f_num = 1
    /\ Len(fault_frames) = 3
    /\ Len(pra.history) = 4

\* A byte 0 .. 255 read as a signed 8-bit value.
Signed8(b) == IF b >= 128 THEN b - 256 ELSE b

(* C19: for every loaded page p with frame f, physical frame f holds page  *)
(* p of the backing store, all 256 bytes of it; so the value printed for   *)
(* an address is the byte at that position of the backing store read as a  *)
(* signed 8-bit value, under every policy and frame count.                 *)
C19_FrameHoldsPage ==
    /\ \A p \in Loaded(page_table) :
        /\ Entry(page_table, p)[1] \in DOMAIN phys_mem
        /\ phys_mem[Entry(page_table, p)[1]] =
                [fill |-> backing_store.fill, page |-> p, size |-> PageSize]
    /\ (addr_count > 0 /\ pc \in {"read", "done"}) =>
        /\ output[1] = addr
        /\ output[2] = Signed8(FileByte(backing_store.fill, addr))
        /\ output[2] \in -128 .. 127
        /\ output[3] = f_num
        /\ output[4] = phys_mem[f_num]
        /\ \A i \in {0, p_offset, PageSize - 1} :
            DataByte(phys_mem[f_num], i) =
                FileByte(backing_store.fill, p_num * PageSize + i)

\* The pages of all lines of the reference file.
Distinct == {ShiftRight(ref_seq[i], 8) : i \in DOMAIN ref_seq}

(* C20: under each policy the page faults are at least as many as the      *)
(* distinct pages referenced; when the frame count is at least the number  *)
(* of distinct pages of the file they are exactly as many: no page is      *)
(* evicted and a page faults on its first reference only.                  *)
C20_FaultsVersusDistinctPages ==
    /\ page_miss >= Cardinality(Referenced)
    /\ pc = "done" => summary.faults >= Cardinality(Distinct)
    /\ frames >= Cardinality(Distinct) =>
        /\ page_miss = Cardinality(Referenced)
        /\ Loaded(page_table) = Referenced
        /\ path = "fault" =>
            /\ EvictedPages = {}
            /\ \A i \in 1 .. addr_count - 1 : ShiftRight(ref_seq[i], 8) # p_num
        /\ pc = "done" => summary.faults = Cardinality(Distinct)

\* A run of three distinct pages on three frames, one of them referenced
\* twice, has ended with three page faults.
C20_Witness ==
    /\ pc = "done"
    /\ frames = 3
    /\ Cardinality(Distinct) = 3
    /\ addr_count = 4
    /\ summary.faults = 3

====
